---- MODULE Spec2Model ----
(***************************************************************************)
(* A model of sshell.c: the validation automaton (parse_errors), the       *)
(* pipeline compiler (tokenize_processes, tokenize_cmd,                    *)
(* initialize_processes), the pipe wiring of main and run_processes.       *)
(*                                                                         *)
(* A command line is a sequence of characters.  Characters are one-letter  *)
(* strings; NUL is the C string terminator that strtok writes in place.    *)
(***************************************************************************)
EXTENDS Integers, Sequences, FiniteSets, TLC

\* ------------------------------------------------------------------ bounds
\* Number of items (characters or words) a line given to the validator and the
\* compiler is made of.
MaxItems == 5

\* Number of stages of a pipeline that is run.
MaxStages == 3

\* Number of stages of the long pipelines given to the compiler.
MaxPipeline == 17

\* ------------------------------------------------------------- characters
NUL == "NUL"

\* isspace(): the model's lines use the blank as the only whitespace character.
IsSpace(c) == c = " "

\* whitespace_delimiters of tokenize_cmd.
whitespace_delimiters == {" "}

\* whitespace_and_redir of initialize_processes.
whitespace_and_redir == {">", " "}

\* ------------------------------------------------------------ input lines
\* Sixteen one-letter arguments separated by single blanks.
RECURSIVE Words(_)
Words(n) == IF n = 1 THEN <<"a">> ELSE Words(n - 1) \o <<" ", "a">>

Args16 == Words(16)

\* The pieces the validator's and the compiler's lines are assembled from.
Items == { <<"a">>, <<" ">>, <<"|">>, <<">">>, Args16 }

RECURSIVE Flatten(_)
Flatten(s) == IF s = <<>> THEN <<>> ELSE Head(s) \o Flatten(Tail(s))

\* The lines fgets can deliver (trailing newline already removed).
Lines == { Flatten(s) : s \in UNION { [1..n -> Items] : n \in 0..MaxItems } }

\* The lines that are run: stages joined by pipes.  A stage is a command, cd
\* without and with a directory, exit, a blank, nothing at all, or a command
\* with a redirection.
StageForms ==
  { <<"a">>, <<"c", "d">>, <<"c", "d", " ", "a">>, <<"e", "x", "i", "t">>,
    <<" ">>, <<>>, <<"a", ">", "a">> }

RECURSIVE Join(_)
Join(s) == IF Len(s) = 1 THEN s[1] ELSE s[1] \o <<"|">> \o Join(Tail(s))

PipelineLines == { Join(s) : s \in UNION { [1..n -> StageForms] : n \in 1..MaxStages } }

\* Long pipelines: n times the same stage, for n up to MaxPipeline.
LongStageForms == { <<"a">>, <<"a", " ">>, <<" ", "a">>, <<"a", " ", "a">>, <<"a", ">", "a">> }

LongLines == { Join([i \in 1..n |-> f]) : n \in 1..MaxPipeline, f \in LongStageForms }

\* ----------------------------------------------------------- parse_errors
\* The automaton's registers at the top of the loop.
InitScan == [ret |-> "CONTINUE", state |-> "SEEN_PIPE", num_args |-> 0, max_args |-> 0]

Max(a, b) == IF a > b THEN a ELSE b

\* The branches of the loop body, one per state test of the if chain.  Each
\* yields the registers after the character; ret is the error returned from
\* inside the loop, or CONTINUE.

\* isspace(curr).
SpaceStep(c) ==
  IF c.state = "READING_PROCESS_ARGS" \/ c.state = "SEEN_PIPE"
  THEN [c EXCEPT !.state = "READING_PROCESS_WHITESPACE"]
  ELSE IF c.state = "SEEN_ONE_ARR" \/ c.state = "SEEN_TWO_ARR"
  THEN [c EXCEPT !.state = "READING_FILENAME_WHITESPACE"]
  ELSE c

\* state == SEEN_PIPE.
SeenPipeStep(c, curr) ==
  IF curr = "|" \/ curr = ">"
  THEN [c EXCEPT !.ret = "PARSE_ERR_MISSING_CMD"]
  ELSE [c EXCEPT !.state = "READING_PROCESS_ARGS", !.num_args = c.num_args + 1]

\* SeenOneArrStep with a pipe right after '>' starting the next process.
SeenOneArrStep_PipeRestarts(c, curr) ==
  IF curr = "|" THEN [c EXCEPT !.state = "SEEN_PIPE"]
  ELSE IF curr = ">" THEN [c EXCEPT !.state = "SEEN_TWO_ARR"]
  ELSE [c EXCEPT !.state = "READING_FILENAME"]

\* state == SEEN_ONE_ARR.
SeenOneArrStep(c, curr) ==
  IF curr = "|" THEN [c EXCEPT !.ret = "PARSE_ERR_NO_OUTPUT"]
  ELSE IF curr = ">" THEN [c EXCEPT !.state = "SEEN_TWO_ARR"]
  ELSE [c EXCEPT !.state = "READING_FILENAME"]

\* state == SEEN_TWO_ARR.
SeenTwoArrStep(c, curr) ==
  IF curr = "|" \/ curr = ">"
  THEN [c EXCEPT !.ret = "PARSE_ERR_NO_OUTPUT"]
  ELSE [c EXCEPT !.state = "READING_FILENAME"]

\* state == READING_PROCESS_WHITESPACE || state == READING_PROCESS_ARGS.
ProcessStep(c, curr) ==
  IF curr = "|" \/ curr = ">"
  THEN [c EXCEPT !.state = IF curr = "|" THEN "SEEN_PIPE" ELSE "SEEN_ONE_ARR",
                 !.max_args = Max(c.max_args, c.num_args),
                 !.num_args = 0]
  ELSE IF c.state = "READING_PROCESS_WHITESPACE"
  THEN [c EXCEPT !.num_args = c.num_args + 1, !.state = "READING_PROCESS_ARGS"]
  ELSE c

\* FilenameStep with a pipe after the filename starting the next process.
FilenameStep_PipeRestarts(c, curr) ==
  IF curr = ">" THEN [c EXCEPT !.ret = "PARSE_ERR_MISLOCATED_REDIR"]
  ELSE IF curr = "|" THEN [c EXCEPT !.state = "SEEN_PIPE"]
  ELSE [c EXCEPT !.state = "READING_FILENAME"]

\* state == READING_FILENAME || state == READING_FILENAME_WHITESPACE.
FilenameStep(c, curr) ==
  IF curr = "|" \/ curr = ">"
  THEN [c EXCEPT !.ret = "PARSE_ERR_MISLOCATED_REDIR"]
  ELSE [c EXCEPT !.state = "READING_FILENAME"]

\* One iteration of the for loop.
DfaStep(c, curr) ==
  IF IsSpace(curr) THEN SpaceStep(c)
  ELSE IF c.state = "SEEN_PIPE" THEN SeenPipeStep(c, curr)
  ELSE IF c.state = "SEEN_ONE_ARR" THEN SeenOneArrStep(c, curr)
  ELSE IF c.state = "SEEN_TWO_ARR" THEN SeenTwoArrStep(c, curr)
  ELSE IF c.state = "READING_PROCESS_WHITESPACE" \/ c.state = "READING_PROCESS_ARGS"
  THEN ProcessStep(c, curr)
  ELSE FilenameStep(c, curr)

\* The for loop over input[lo..hi], entered with registers c: the characters
\* are read in order (the range is halved to keep the evaluation shallow), and
\* nothing is read after a return.
RECURSIVE Scan(_, _, _, _)
Scan(input, lo, hi, c) ==
  IF lo > hi THEN c
  ELSE IF lo = hi THEN (IF c.ret # "CONTINUE" THEN c ELSE DfaStep(c, input[lo]))
  ELSE LET mid == (lo + hi) \div 2
           left == Scan(input, lo, mid, c)
       IN  IF left.ret # "CONTINUE" THEN left ELSE Scan(input, mid + 1, hi, left)

\* EndOfInput without the filename-after-whitespace state in the no-output test.
EndOfInput_NoFilenameWhitespace(c) ==
  LET max_args == Max(c.max_args, c.num_args)
  IN  IF c.state = "SEEN_PIPE" THEN "PARSE_ERR_MISSING_CMD"
      ELSE IF c.state = "SEEN_ONE_ARR" \/ c.state = "SEEN_TWO_ARR" THEN "PARSE_ERR_NO_OUTPUT"
      ELSE IF max_args > 16 THEN "PARSE_ERR_ARG_OVERFLOW"
      ELSE "NO_ERROR"

\* EndOfInput comparing the last process's count only, not the maximum.
EndOfInput_LastStageOnly(c) ==
  IF c.state = "SEEN_PIPE" THEN "PARSE_ERR_MISSING_CMD"
  ELSE IF c.state = "SEEN_ONE_ARR" \/ c.state = "SEEN_TWO_ARR"
          \/ c.state = "READING_FILENAME_WHITESPACE" THEN "PARSE_ERR_NO_OUTPUT"
  ELSE IF c.num_args > 16 THEN "PARSE_ERR_ARG_OVERFLOW"
  ELSE "NO_ERROR"

\* EndOfInput with the overflow test before the tests of the final state.
EndOfInput_OverflowFirst(c) ==
  LET max_args == Max(c.max_args, c.num_args)
  IN  IF max_args > 16 THEN "PARSE_ERR_ARG_OVERFLOW"
      ELSE IF c.state = "SEEN_PIPE" THEN "PARSE_ERR_MISSING_CMD"
      ELSE IF c.state = "SEEN_ONE_ARR" \/ c.state = "SEEN_TWO_ARR"
              \/ c.state = "READING_FILENAME_WHITESPACE" THEN "PARSE_ERR_NO_OUTPUT"
      ELSE "NO_ERROR"

\* The checks after the loop.
EndOfInput(c) ==
  LET max_args == Max(c.max_args, c.num_args)
  IN  IF c.state = "SEEN_PIPE" THEN "PARSE_ERR_MISSING_CMD"
      ELSE IF c.state = "SEEN_ONE_ARR" \/ c.state = "SEEN_TWO_ARR"
              \/ c.state = "READING_FILENAME_WHITESPACE" THEN "PARSE_ERR_NO_OUTPUT"
      ELSE IF max_args > 16 THEN "PARSE_ERR_ARG_OVERFLOW"
      ELSE "NO_ERROR"

\* strlen: the loop of parse_errors ends at the terminator.
RECURSIVE strlen(_, _, _)
strlen(buf, lo, hi) ==
  IF lo > hi THEN hi
  ELSE IF lo = hi THEN (IF buf[lo] = NUL THEN lo - 1 ELSE lo)
  ELSE LET mid == (lo + hi) \div 2
           l == strlen(buf, lo, mid)
       IN  IF l < mid THEN l ELSE strlen(buf, mid + 1, hi)

parse_errors(input) ==
  LET c == Scan(input, 1, strlen(input, 1, Len(input)), InitScan)
  IN  IF c.ret # "CONTINUE" THEN c.ret ELSE EndOfInput(c)

\* ----------------------------------------------------------------- strtok
\* C strings live in buffers (sequences of characters); a pointer is an index
\* into its buffer, 0 is the null pointer, and every buffer is followed by a
\* terminator.
At(buf, i) == IF i > Len(buf) THEN NUL ELSE buf[i]

\* The first index i in lo..hi with (At(buf, i) \in set) = member, and hi + 1
\* when there is none: the scanning loops of strtok and of tokenize_cmd.
RECURSIVE FirstIn(_, _, _, _, _)
FirstIn(buf, lo, hi, set, member) ==
  IF lo > hi THEN hi + 1
  ELSE IF lo = hi THEN (IF (At(buf, lo) \in set) = member THEN lo ELSE hi + 1)
  ELSE LET mid == (lo + hi) \div 2
           l == FirstIn(buf, lo, mid, set, member)
       IN  IF l <= mid THEN l ELSE FirstIn(buf, mid + 1, hi, set, member)

\* Where the string at p ends: the index of its terminator.
StrEnd(buf, p) == FirstIn(buf, p, Len(buf) + 1, {NUL}, TRUE)

\* The string a pointer designates: the characters up to the terminator.
CStr(buf, p) == SubSeq(buf, p, StrEnd(buf, p) - 1)

\* strtok skipping the delimiters in front of a token.
SkipDelims(buf, p, delims) == FirstIn(buf, p, Len(buf) + 1, delims, FALSE)

\* strtok looking for the end of the token.
FindDelim(buf, p, delims) == FirstIn(buf, p, Len(buf) + 1, delims \cup {NUL}, TRUE)

\* One call of strtok continuing at p: the token (0 when there is none), the
\* position the next call continues at, and the buffer with the delimiter that
\* ends the token overwritten by the terminator.
strtok(buf, p, delims) ==
  LET s == SkipDelims(buf, p, delims)
      e == FindDelim(buf, s, delims)
  IN  IF At(buf, s) = NUL THEN [tok |-> 0, next |-> s, buf |-> buf]
      ELSE IF At(buf, e) = NUL THEN [tok |-> s, next |-> e, buf |-> buf]
      ELSE [tok |-> s, next |-> e + 1, buf |-> [buf EXCEPT ![e] = NUL]]

\* One iteration of the while loop shared by tokenize_processes and
\* tokenize_cmd; t holds the token pointers so far, the buffer, the position
\* strtok continues at, and whether strtok has returned the null pointer.
TokenStep(t, delims) ==
  IF t.done THEN t
  ELSE LET r == strtok(t.buf, t.next, delims)
       IN  IF r.tok = 0 THEN [t EXCEPT !.done = TRUE]
           ELSE [toks |-> Append(t.toks, r.tok), buf |-> r.buf, next |-> r.next,
                 done |-> FALSE]

\* n iterations of the loop (halved to keep the evaluation shallow).
RECURSIVE TokenSteps(_, _, _)
TokenSteps(t, delims, n) ==
  IF n = 0 \/ t.done THEN t
  ELSE IF n = 1 THEN TokenStep(t, delims)
  ELSE TokenSteps(TokenSteps(t, delims, n \div 2), delims, n - (n \div 2))

\* The while loop from position p on, run until strtok returns the null
\* pointer (a buffer holds fewer tokens than characters): the pointers of all
\* tokens, and the buffer after all calls.
TokenLoop(buf, p, delims) ==
  LET t == TokenSteps([toks |-> <<>>, buf |-> buf, next |-> p, done |-> FALSE],
                      delims, Len(buf) + 1)
  IN  [toks |-> t.toks, buf |-> t.buf]

\* tokenize_processes: process_tokens (without its closing null entry) and the
\* modified input.
tokenize_processes(str) == TokenLoop(str, 1, {"|"})

\* First loop of tokenize_cmd: the first '>' of the process string becomes the
\* terminator.
CutRedirect(buf, cmd) ==
  LET i == FirstIn(buf, cmd, Len(buf) + 1, {">", NUL}, TRUE)
  IN  IF At(buf, i) = ">" THEN [buf EXCEPT ![i] = NUL] ELSE buf

\* tokenize_cmd without its first loop: the redirection symbols and the
\* filename are tokenized with the arguments.
tokenize_cmd_NoCut(buf, cmd) == TokenLoop(buf, cmd, whitespace_delimiters)

\* tokenize_cmd on the process string at cmd: the argument pointers written to
\* buf[] (without the closing null entry) and the modified buffer.
tokenize_cmd(buf, cmd) == TokenLoop(CutRedirect(buf, cmd), cmd, whitespace_delimiters)

\* ------------------------------------------------------------ Process list
NULL == <<NUL>>

STDIN_FILENO == 0
STDOUT_FILENO == 1

\* strstr(s, ">") and strstr(s, ">>") on a string value.
HasRedirect(s) == \E i \in 1..Len(s) : s[i] = ">"
HasAppend(s) == \E i \in 1..Len(s) - 1 : s[i] = ">" /\ s[i + 1] = ">"

\* The redirection part of initialize_processes, run on cur_token_copy.
RedirectOf(copy) ==
  IF HasRedirect(copy) THEN
    LET first == strtok(copy, 1, {">"})
        second == strtok(first.buf, first.next, whitespace_and_redir)
    IN  [redirect_output |-> IF HasAppend(copy) THEN "REDIRECT_APPEND" ELSE "REDIRECT_TRUNCATE",
         filename |-> IF second.tok = 0 THEN NULL ELSE CStr(second.buf, second.tok),
         token |-> IF first.tok = 0 THEN NULL ELSE CStr(first.buf, first.tok)]
  ELSE [redirect_output |-> "NO_REDIRECT", filename |-> NULL, token |-> copy]

\* The Process node initialize_processes builds for the process string at
\* pointer tok of buffer buf.  Argument strings are kept by value: later calls
\* only write behind this string's terminator.
NewProcess(buf, tok) ==
  LET cur_token_copy == CStr(buf, tok)
      t == tokenize_cmd(buf, tok)
      args == [k \in 1..Len(t.toks) |-> CStr(t.buf, t.toks[k])]
      r == RedirectOf(cur_token_copy)
  IN  [pid |-> 0, exit_val |-> 0,
       cmd |-> IF args = <<>> THEN NULL ELSE args[1],
       args |-> args,
       redirect_output |-> r.redirect_output, filename |-> r.filename,
       in |-> STDIN_FILENO, out |-> STDOUT_FILENO,
       token_copy |-> cur_token_copy]

\* initialize_processes from process_tokens[i] on: the list, the buffer as the
\* calls of tokenize_cmd leave it.
RECURSIVE InitLoop(_, _, _, _)
InitLoop(buf, toks, i, acc) ==
  IF i > Len(toks) THEN [list |-> acc, buf |-> buf]
  ELSE InitLoop(tokenize_cmd(buf, toks[i]).buf, toks, i + 1,
                Append(acc, NewProcess(buf, toks[i])))

initialize_processes(buf, toks) == InitLoop(buf, toks, 1, <<>>)

\* ------------------------------------------------------------ descriptors
\* A descriptor table maps open descriptor numbers to what they refer to: the
\* terminal, one end of a pipe, or a file opened for redirection.
TTY == [kind |-> "tty"]
PipeEnd(k, end) == [kind |-> "pipe", id |-> k, end |-> end]
File(name, mode) == [kind |-> "file", name |-> name, mode |-> mode]

StdTable == (0 :> TTY) @@ (1 :> TTY) @@ (2 :> TTY)

\* The lowest descriptor number not in use, as open and pipe allocate.
LowestFree(t) == CHOOSE n \in 0..(Cardinality(DOMAIN t)) : n \notin DOMAIN t

\* pipe(fd): read end first, write end second.
PipeFds(t) ==
  LET r == LowestFree(t)
      w == LowestFree(t @@ (r :> TTY))
  IN  <<r, w>>

\* dup2(old, new): nothing happens when old is not open or equal to new.
dup2(t, old, new) ==
  IF old \notin DOMAIN t \/ old = new THEN t
  ELSE [n \in DOMAIN t \cup {new} |-> IF n = new THEN t[old] ELSE t[n]]

close(t, fd) == [n \in DOMAIN t \ {fd} |-> t[n]]

\* close_pipes that closes the out descriptors only.
RECURSIVE close_pipes_OutOnly(_, _, _)
close_pipes_OutOnly(t, list, i) ==
  IF i > Len(list) THEN t
  ELSE LET b == IF list[i].out # STDOUT_FILENO THEN close(t, list[i].out) ELSE t
       IN  close_pipes_OutOnly(b, list, i + 1)

\* close_pipes over the list from node i on.
RECURSIVE close_pipes(_, _, _)
close_pipes(t, list, i) ==
  IF i > Len(list) THEN t
  ELSE LET a == IF list[i].in # STDIN_FILENO THEN close(t, list[i].in) ELSE t
           b == IF list[i].out # STDOUT_FILENO THEN close(a, list[i].out) ELSE a
       IN  close_pipes(b, list, i + 1)

\* The descriptors close_pipes passes to close, in the order of the calls,
\* from node i on.
RECURSIVE CloseSeq(_, _)
CloseSeq(list, i) ==
  IF i > Len(list) THEN <<>>
  ELSE (IF list[i].in # STDIN_FILENO THEN <<list[i].in>> ELSE <<>>)
       \o (IF list[i].out # STDOUT_FILENO THEN <<list[i].out>> ELSE <<>>)
       \o CloseSeq(list, i + 1)

\* CreatePipes with the two ends of each pipe exchanged.
RECURSIVE CreatePipes_EndsSwapped(_, _, _, _)
CreatePipes_EndsSwapped(list, t, i, n) ==
  IF i > Len(list) THEN [list |-> list, fds |-> t, npipes |-> n]
  ELSE IF i < Len(list) THEN
    LET fd == PipeFds(t)
        t2 == t @@ (fd[1] :> PipeEnd(n + 1, "r")) @@ (fd[2] :> PipeEnd(n + 1, "w"))
        l2 == [list EXCEPT ![i].out = fd[1], ![i + 1].in = fd[2]]
    IN  CreatePipes_EndsSwapped(l2, t2, i + 1, n + 1)
  ELSE CreatePipes_EndsSwapped(list, t, i + 1, n)

\* The pipe creation loop of main from node i on: the list with in/out set,
\* the shell's table, and the number of pipes created so far.
RECURSIVE CreatePipes(_, _, _, _)
CreatePipes(list, t, i, n) ==
  IF i > Len(list) THEN [list |-> list, fds |-> t, npipes |-> n]
  ELSE IF i < Len(list) THEN
    LET fd == PipeFds(t)
        t2 == t @@ (fd[1] :> PipeEnd(n + 1, "r")) @@ (fd[2] :> PipeEnd(n + 1, "w"))
        l2 == [list EXCEPT ![i].out = fd[2], ![i + 1].in = fd[1]]
    IN  CreatePipes(l2, t2, i + 1, n + 1)
  ELSE CreatePipes(list, t, i + 1, n)

\* ---------------------------------------------------------------- messages
\* handle_error: the fixed text of each error kind.
handle_error(e) ==
  CASE e = "PARSE_ERR_ARG_OVERFLOW" -> "Error: too many process arguments"
    [] e = "PARSE_ERR_MISSING_CMD" -> "Error: missing command"
    [] e = "PARSE_ERR_NO_OUTPUT" -> "Error: no output file"
    [] e = "PARSE_ERR_MISLOCATED_REDIR" -> "Error: mislocated output redirection"
    [] e = "LAUNCH_ERR_ACCESS_DIR" -> "Error: cannot cd into directory"
    [] e = "LAUNCH_ERR_ACCESS_FILE" -> "Error: cannot open output file"
    [] e = "LAUNCH_ERR_CMD_NOT_FOUND" -> "Error: command not found"
    [] e = "NO_ERROR" -> "THIS SHOULDN'T PRINT! NO ERROR"

\* A line on stderr: an error message, the Bye... of exit, or a summary.
ErrorLine(e) == [kind |-> "error", text |-> handle_error(e), codes |-> <<>>]
ByeLine == [kind |-> "bye", text |-> "Bye...", codes |-> <<>>]

\* print_result: the summary line, its text and the exit values in list order.
print_result(list, input_cpy) ==
  [kind |-> "completed", text |-> input_cpy,
   codes |-> [k \in 1..Len(list) |-> list[k].exit_val]]

EXIT == <<"e", "x", "i", "t">>
CD == <<"c", "d">>
PWD == <<"p", "w", "d">>
SLS == <<"s", "l", "s">>

\* The file system the shell runs in: the start directory holds one
\* directory, named a, which is empty.
StartDir == "/"
chdir(cwd, dir_name) == IF cwd = StartDir /\ dir_name = <<"a">> THEN "/a" ELSE "FAIL"

\* -------------------------------------------------------------------- state
VARIABLES
  pc,              \* where the controlling process is in main / run_processes
  input,           \* char input[CMDLINE_MAX]
  e,               \* ErrorType e of main
  input_cpy,       \* the strdup of input taken before tokenizing
  process_tokens,  \* the strings process_tokens[] points to
  head,            \* the Process list, in list order
  cur,             \* position of the cur pointer in the loops of run_processes
  fds,             \* descriptor table of the controlling process
  npipes,          \* number of pipes created for the current line
  children,        \* forked processes not yet waited for, by pid
  cwd,             \* working directory of the controlling process
  stderr,          \* what was written to stderr since the prompt was printed
  line             \* the line as fgets delivered it (never written after that)

vars == <<pc, input, e, input_cpy, process_tokens, head, cur, fds, npipes, children,
          cwd, stderr, line>>

Init ==
  /\ pc = "prompt"
  /\ input = <<>>
  /\ e = "NO_ERROR"
  /\ input_cpy = <<>>
  /\ process_tokens = <<>>
  /\ head = <<>>
  /\ cur = 0
  /\ fds = StdTable
  /\ npipes = 0
  /\ children = <<>>
  /\ cwd = StartDir
  /\ stderr = <<>>
  /\ line = <<>>

\* prompt_get_input, first half: the prompt is printed.  What the previous
\* iteration left in input, e and process_tokens is dead (each is assigned
\* again before it is read), and stderr starts a new record.
PrintPrompt ==
  /\ pc = "prompt"
  /\ pc' = "read"
  /\ input' = <<>>
  /\ e' = "NO_ERROR"
  /\ process_tokens' = <<>>
  /\ stderr' = <<>>
  /\ npipes' = 0
  /\ line' = <<>>
  /\ UNCHANGED <<input_cpy, head, cur, fds, children, cwd>>

\* prompt_get_input, second half: fgets and the removal of the newline; the
\* line is one of from.
ReadFrom(from) ==
  /\ pc = "read"
  /\ \E l \in from : input' = l /\ line' = l
  /\ pc' = "validate"
  /\ UNCHANGED <<e, input_cpy, process_tokens, head, cur, fds, npipes, children, cwd,
                 stderr>>

ReadLine == ReadFrom(Lines)

ReadPipeline == ReadFrom(PipelineLines)

ReadLong == ReadFrom(LongLines)

\* Validate without the continue: a rejected line is compiled all the same.
Validate_NoContinue ==
  /\ pc = "validate"
  /\ e' = parse_errors(input)
  /\ IF e' # "NO_ERROR"
     THEN stderr' = Append(stderr, ErrorLine(e'))
     ELSE stderr' = stderr
  /\ pc' = "compile"
  /\ UNCHANGED <<input, input_cpy, process_tokens, head, cur, fds, npipes, children, cwd, line>>

\* main: parse_errors, and on an error handle_error and continue.
Validate ==
  /\ pc = "validate"
  /\ e' = parse_errors(input)
  /\ IF e' # "NO_ERROR"
     THEN /\ stderr' = Append(stderr, ErrorLine(e'))
          /\ pc' = "prompt"
     ELSE /\ stderr' = stderr
          /\ pc' = "compile"
  /\ UNCHANGED <<input, input_cpy, process_tokens, head, cur, fds, npipes, children, cwd, line>>

\* main: strdup(input), tokenize_processes, initialize_processes.
Compile ==
  /\ pc = "compile"
  /\ LET t == tokenize_processes(input)
         r == initialize_processes(t.buf, t.toks)
     IN  /\ input_cpy' = CStr(input, 1)
         /\ input' = r.buf
         /\ head' = r.list
         /\ process_tokens' =
              [i \in 1..Len(t.toks) |->
                 IF r.list[i].redirect_output # "NO_REDIRECT"
                 THEN RedirectOf(r.list[i].token_copy).token
                 ELSE CStr(r.buf, t.toks[i])]
  /\ pc' = "pipes"
  /\ UNCHANGED <<e, cur, fds, npipes, children, cwd, stderr, line>>

\* char *process_tokens[ARGS_MAX] of main.
ARGS_MAX == 16

\* tokenize_processes on a line of ARGS_MAX process strings or more stores
\* beyond the end of process_tokens (the terminating null pointer, and the
\* strings from the 17th on).  The store hits other stack memory of main: the
\* run goes on as in Compile, or the shell is killed, which is this step.
\* Lines of fewer process strings leave it disabled.
CompileOverrun ==
  /\ pc = "compile"
  /\ Len(tokenize_processes(input).toks) + 1 > ARGS_MAX
  /\ pc' = "crashed"
  /\ UNCHANGED <<input, e, input_cpy, process_tokens, head, cur, fds, npipes, children,
                 cwd, stderr, line>>

\* main: the pipe creation loop, then the call of run_processes.
Pipes ==
  /\ pc = "pipes"
  /\ LET r == CreatePipes(head, fds, 1, 0)
     IN  /\ head' = r.list
         /\ fds' = r.fds
         /\ npipes' = r.npipes
  /\ cur' = 1
  /\ pc' = "launch"
  /\ UNCHANGED <<input, e, input_cpy, process_tokens, children, cwd, stderr, line>>

\* ------------------------------------------------------------ run_processes
Remove(f, k) == [n \in DOMAIN f \ {k} |-> f[n]]

\* Loop body, cmd is "exit": Bye..., the summary, and the shell ends.
LaunchExit ==
  /\ pc = "launch" /\ cur <= Len(head)
  /\ head[cur].cmd = EXIT
  /\ stderr' = stderr \o <<ByeLine, print_result(head, input_cpy)>>
  /\ input_cpy' = <<>>
  /\ pc' = "exited"
  /\ UNCHANGED <<input, e, process_tokens, head, cur, fds, npipes, children, cwd, line>>

\* LaunchCd without the assignment to exit_val: a failed cd is reported only.
LaunchCd_NoStatus ==
  /\ pc = "launch" /\ cur <= Len(head)
  /\ head[cur].cmd = CD
  /\ LET dir_name == IF Len(head[cur].args) >= 2 THEN head[cur].args[2] ELSE NULL
         to == IF dir_name = NULL THEN "FAIL" ELSE chdir(cwd, dir_name)
     IN  IF to = "FAIL"
         THEN /\ stderr' = Append(stderr, ErrorLine("LAUNCH_ERR_ACCESS_DIR"))
              /\ head' = head
              /\ cwd' = cwd
         ELSE /\ cwd' = to
              /\ UNCHANGED <<stderr, head>>
  /\ cur' = cur + 1
  /\ UNCHANGED <<pc, input, e, input_cpy, process_tokens, fds, npipes, children, line>>

\* Loop body, cmd is "cd": chdir in the controlling process, no fork.
LaunchCd ==
  /\ pc = "launch" /\ cur <= Len(head)
  /\ head[cur].cmd = CD
  /\ LET dir_name == IF Len(head[cur].args) >= 2 THEN head[cur].args[2] ELSE NULL
         to == IF dir_name = NULL THEN "FAIL" ELSE chdir(cwd, dir_name)
     IN  IF to = "FAIL"
         THEN /\ stderr' = Append(stderr, ErrorLine("LAUNCH_ERR_ACCESS_DIR"))
              /\ head' = [head EXCEPT ![cur].exit_val = 1]
              /\ cwd' = cwd
         ELSE /\ cwd' = to
              /\ UNCHANGED <<stderr, head>>
  /\ cur' = cur + 1
  /\ UNCHANGED <<pc, input, e, input_cpy, process_tokens, fds, npipes, children, line>>

\* LaunchFork in which the controlling process closes the pipe descriptors of
\* the stage right after forking it.
LaunchFork_ClosesOwnEnds ==
  /\ pc = "launch" /\ cur <= Len(head)
  /\ head[cur].cmd \notin {NULL, EXIT, CD}
  /\ head' = [head EXCEPT ![cur].pid = cur]
  /\ children' = children @@ (cur :> [pc |-> "setup", fdt |-> fds, status |-> 0])
  /\ fds' = close_pipes(fds, <<head[cur]>>, 1)
  /\ cur' = cur + 1
  /\ UNCHANGED <<pc, input, e, input_cpy, process_tokens, npipes, cwd, stderr, line>>

\* Loop body, any other command: fork.  The child starts with a copy of the
\* descriptor table; the pid is the node's position in the list.
LaunchFork ==
  /\ pc = "launch" /\ cur <= Len(head)
  /\ head[cur].cmd \notin {NULL, EXIT, CD}
  /\ head' = [head EXCEPT ![cur].pid = cur]
  /\ children' = children @@ (cur :> [pc |-> "setup", fdt |-> fds, status |-> 0])
  /\ cur' = cur + 1
  /\ UNCHANGED <<pc, input, e, input_cpy, process_tokens, fds, npipes, cwd, stderr, line>>

\* Loop body, cmd is the null pointer (the process string held no argument):
\* strcmp dereferences it.  The shell is killed, or the comparisons come out
\* unequal and the node is forked like any other command.
LaunchNull ==
  /\ pc = "launch" /\ cur <= Len(head)
  /\ head[cur].cmd = NULL
  /\ \/ /\ pc' = "crashed"
        /\ UNCHANGED <<head, children, cur>>
     \/ /\ head' = [head EXCEPT ![cur].pid = cur]
        /\ children' = children @@ (cur :> [pc |-> "setup", fdt |-> fds, status |-> 0])
        /\ cur' = cur + 1
        /\ pc' = pc
  /\ UNCHANGED <<input, e, input_cpy, process_tokens, fds, npipes, cwd, stderr, line>>

\* After the launch loop: close_pipes(head) in the controlling process.
ClosePipes ==
  /\ pc = "launch" /\ cur > Len(head)
  /\ fds' = close_pipes(fds, head, 1)
  /\ cur' = 1
  /\ pc' = "wait"
  /\ UNCHANGED <<input, e, input_cpy, process_tokens, head, npipes, children, cwd, stderr, line>>

\* Wait loop body for a node that was forked: waitpid blocks until the child
\* has terminated, then its exit status is stored.
WaitChild ==
  /\ pc = "wait" /\ cur <= Len(head)
  /\ head[cur].cmd \notin {NULL, EXIT, CD}
  /\ head[cur].pid \in DOMAIN children
  /\ children[head[cur].pid].pc = "exited"
  /\ head' = [head EXCEPT ![cur].exit_val = children[head[cur].pid].status]
  /\ children' = Remove(children, head[cur].pid)
  /\ cur' = cur + 1
  /\ UNCHANGED <<pc, input, e, input_cpy, process_tokens, fds, npipes, cwd, stderr, line>>

\* Wait loop body for a cd node: nothing to wait for.
WaitSkip ==
  /\ pc = "wait" /\ cur <= Len(head)
  /\ head[cur].cmd = CD
  /\ cur' = cur + 1
  /\ UNCHANGED <<pc, input, e, input_cpy, process_tokens, head, fds, npipes, children,
                 cwd, stderr, line>>

\* Wait loop body for a node whose cmd is the null pointer: strcmp again.
WaitNull ==
  /\ pc = "wait" /\ cur <= Len(head)
  /\ head[cur].cmd = NULL
  /\ \/ /\ pc' = "crashed"
        /\ UNCHANGED <<head, children, cur>>
     \/ /\ head[cur].pid \in DOMAIN children
        /\ children[head[cur].pid].pc = "exited"
        /\ head' = [head EXCEPT ![cur].exit_val = children[head[cur].pid].status]
        /\ children' = Remove(children, head[cur].pid)
        /\ cur' = cur + 1
        /\ pc' = pc
  /\ UNCHANGED <<input, e, input_cpy, process_tokens, fds, npipes, cwd, stderr, line>>

\* After the wait loop: print_result, which frees input_cpy.
Report ==
  /\ pc = "wait" /\ cur > Len(head)
  /\ stderr' = Append(stderr, print_result(head, input_cpy))
  /\ input_cpy' = <<>>
  /\ pc' = "free"
  /\ UNCHANGED <<input, e, process_tokens, head, cur, fds, npipes, children, cwd, line>>

\* main: free_processes, and back to the top of the loop.
Free ==
  /\ pc = "free"
  /\ head' = <<>>
  /\ cur' = 0
  /\ pc' = "prompt"
  /\ UNCHANGED <<input, e, input_cpy, process_tokens, fds, npipes, children, cwd, stderr, line>>

\* ---------------------------------------------------------------- children
SetChild(k, rec) == [children EXCEPT ![k] = rec]

\* exit() in a child: all its descriptors are closed.
Exited(status) == [pc |-> "exited", fdt |-> <<>>, status |-> status]

\* ChildSetup without the exit after a failed open: the error is reported and
\* the child goes on to run the command.
ChildSetup_NoExitOnFailure(k) ==
  /\ k \in DOMAIN children
  /\ children[k].pc = "setup"
  /\ LET p == head[k]
         t0 == dup2(children[k].fdt, p.in, STDIN_FILENO)
     IN  IF p.redirect_output = "NO_REDIRECT"
         THEN /\ children' = SetChild(k, [pc |-> "exec", status |-> 0,
                               fdt |-> close_pipes(dup2(t0, p.out, STDOUT_FILENO), head, 1)])
              /\ stderr' = stderr
         ELSE \/ /\ children' = SetChild(k, [pc |-> "exec", status |-> 0,
                      fdt |-> close_pipes([n \in DOMAIN t0 \cup {STDOUT_FILENO} |->
                                             IF n = STDOUT_FILENO
                                             THEN File(p.filename, p.redirect_output)
                                             ELSE t0[n]], head, 1)])
                 /\ stderr' = stderr
              \/ /\ children' = SetChild(k, [pc |-> "exec", status |-> 0,
                                             fdt |-> close_pipes(t0, head, 1)])
                 /\ stderr' = Append(stderr, ErrorLine("LAUNCH_ERR_ACCESS_FILE"))
  /\ UNCHANGED <<pc, input, e, input_cpy, process_tokens, head, cur, fds, npipes, cwd, line>>

\* setup_fd_table in the child of node k; nondeterminism: whether the output
\* file can be opened.
ChildSetup(k) ==
  /\ k \in DOMAIN children
  /\ children[k].pc = "setup"
  /\ LET p == head[k]
         t0 == dup2(children[k].fdt, p.in, STDIN_FILENO)
     IN  IF p.redirect_output = "NO_REDIRECT"
         THEN /\ children' = SetChild(k, [pc |-> "exec", status |-> 0,
                               fdt |-> close_pipes(dup2(t0, p.out, STDOUT_FILENO), head, 1)])
              /\ stderr' = stderr
         ELSE \/ /\ children' = SetChild(k, [pc |-> "exec", status |-> 0,
                      fdt |-> close_pipes([n \in DOMAIN t0 \cup {STDOUT_FILENO} |->
                                             IF n = STDOUT_FILENO
                                             THEN File(p.filename, p.redirect_output)
                                             ELSE t0[n]], head, 1)])
                 /\ stderr' = stderr
              \/ /\ children' = SetChild(k, Exited(1))
                 /\ stderr' = Append(stderr, ErrorLine("LAUNCH_ERR_ACCESS_FILE"))
  /\ UNCHANGED <<pc, input, e, input_cpy, process_tokens, head, cur, fds, npipes, cwd, line>>

\* The child after setup_fd_table: pwd and sls run in the child and exit;
\* otherwise execvp, which either fails (command not found) or starts the
\* program.  With a null cmd the child is killed in strcmp (WEXITSTATUS then
\* reads 0) or execvp fails.
ChildExec(k) ==
  /\ k \in DOMAIN children
  /\ children[k].pc = "exec"
  /\ IF head[k].cmd = PWD
     THEN /\ children' = SetChild(k, Exited(0))
          /\ stderr' = stderr
     ELSE IF head[k].cmd = SLS
     THEN \/ /\ children' = SetChild(k, Exited(0))
             /\ stderr' = stderr
          \/ /\ children' = SetChild(k, Exited(1))
             /\ stderr' = Append(stderr, ErrorLine("LAUNCH_ERR_ACCESS_DIR"))
     ELSE \/ /\ head[k].cmd # NULL
             /\ children' = SetChild(k, [children[k] EXCEPT !.pc = "running"])
             /\ stderr' = stderr
          \/ /\ children' = SetChild(k, Exited(1))
             /\ stderr' = Append(stderr, ErrorLine("LAUNCH_ERR_CMD_NOT_FOUND"))
          \/ /\ head[k].cmd = NULL
             /\ children' = SetChild(k, Exited(0))
             /\ stderr' = stderr
  /\ UNCHANGED <<pc, input, e, input_cpy, process_tokens, head, cur, fds, npipes, cwd, line>>

\* The external program terminates with some exit status.
ExitStatuses == {0, 1}

ChildExit(k) ==
  /\ k \in DOMAIN children
  /\ children[k].pc = "running"
  /\ \E st \in ExitStatuses : children' = SetChild(k, Exited(st))
  /\ UNCHANGED <<pc, input, e, input_cpy, process_tokens, head, cur, fds, npipes, cwd,
                 stderr, line>>

\* ------------------------------------------------------- programs and pipes
\* Table t holds a descriptor for the pipe end.
Holds(t, end) == \E fd \in DOMAIN t : t[fd] = end

\* The pipe end is open in some process: in the controlling process while it
\* lives, or in a child (a child that has exited holds nothing).
Open(end) ==
  \/ pc \notin {"exited", "crashed"} /\ Holds(fds, end)
  \/ \E j \in DOMAIN children : Holds(children[j].fdt, end)

\* The program of child k can come to its end: its standard input is not a
\* pipe, or it is a pipe no process can write to any more (read returns
\* end-of-file), or its standard output is a pipe nobody can read (SIGPIPE).
CanFinish(k) ==
  LET in == children[k].fdt[STDIN_FILENO]
      out == children[k].fdt[STDOUT_FILENO]
  IN  \/ in.kind # "pipe"
      \/ in.kind = "pipe" /\ ~Open(PipeEnd(in.id, "w"))
      \/ out.kind = "pipe" /\ ~Open(PipeEnd(out.id, "r"))

\* The external program terminates, and does so only once it has read its
\* input to end-of-file or lost the reader of its output.
ChildExitAtEof(k) ==
  /\ k \in DOMAIN children
  /\ children[k].pc = "running"
  /\ CanFinish(k)
  /\ \E st \in ExitStatuses : children' = SetChild(k, Exited(st))
  /\ UNCHANGED <<pc, input, e, input_cpy, process_tokens, head, cur, fds, npipes, cwd,
                 stderr, line>>

Next ==
  \/ PrintPrompt
  \/ ReadPipeline
  \/ Validate
  \/ Compile
  \/ Pipes
  \/ LaunchExit
  \/ LaunchCd
  \/ LaunchFork
  \/ LaunchNull
  \/ ClosePipes
  \/ WaitChild
  \/ WaitSkip
  \/ WaitNull
  \/ Report
  \/ Free
  \/ \E k \in DOMAIN children : ChildSetup(k) \/ ChildExec(k) \/ ChildExit(k)

\* The shell reading and running pipelines.
Spec == Init /\ [][Next]_vars

\* The steps of run_processes in the controlling process and of the children,
\* with programs that run until end-of-file.
Progress ==
  \/ LaunchExit \/ LaunchCd \/ LaunchFork \/ LaunchNull
  \/ ClosePipes
  \/ WaitChild \/ WaitSkip \/ WaitNull
  \/ Report \/ Free
  \/ \E k \in DOMAIN children : ChildSetup(k) \/ ChildExec(k) \/ ChildExitAtEof(k)

NextLive ==
  \/ PrintPrompt
  \/ ReadPipeline
  \/ Validate
  \/ Compile
  \/ Pipes
  \/ LaunchExit
  \/ LaunchCd
  \/ LaunchFork
  \/ LaunchNull
  \/ ClosePipes
  \/ WaitChild
  \/ WaitSkip
  \/ WaitNull
  \/ Report
  \/ Free
  \/ \E k \in DOMAIN children : ChildSetup(k) \/ ChildExec(k) \/ ChildExitAtEof(k)

\* The shell with programs that end only at end-of-file: once run_processes
\* is entered, every process that can take a step is scheduled at some time.
SpecLive == Init /\ [][NextLive]_vars /\ WF_vars(Progress)

\* The validator, the compiler and the pipe creation of main on any line, up
\* to the call of run_processes.
NextCompile ==
  \/ PrintPrompt
  \/ ReadLine
  \/ Validate
  \/ Compile
  \/ Pipes

SpecCompile == Init /\ [][NextCompile]_vars

\* The validator, the compiler and the pipe creation of main on long
\* pipelines.
NextStages ==
  \/ PrintPrompt
  \/ ReadLong
  \/ Validate
  \/ Compile
  \/ CompileOverrun
  \/ Pipes

SpecStages == Init /\ [][NextStages]_vars

TypeOK ==
  /\ pc \in {"prompt", "read", "validate", "compile", "pipes", "launch", "wait", "free",
             "exited", "crashed"}
  /\ cur \in 0..(Len(head) + 1)
  /\ cwd \in {StartDir, "/a"}

\* =================================================================== claims
\* The states right after parse_errors returned: the line was rejected (main is
\* back at the top of its loop) or accepted (main goes on to compile it).  In
\* both, e is the value returned for line.
Rejected == pc = "prompt" /\ e # "NO_ERROR"
Accepted == pc = "compile"
Validated == Rejected \/ Accepted

Special == {"|", ">"}

\* The first character of l that is not whitespace (NUL when there is none).
FirstNonSpace(l) ==
  IF \E i \in 1..Len(l) : l[i] # " "
  THEN l[CHOOSE i \in 1..Len(l) : l[i] # " " /\ \A j \in 1..(i - 1) : l[j] = " "]
  ELSE NUL

\* The automaton's registers at the moment l[i] is read (ret is CONTINUE when
\* the loop gets that far).
RegsBefore(l, i) == Scan(l, 1, i - 1, InitScan)

\* The registers before each character of l: entry i is RegsBefore(l, i), for
\* i up to Len(l) + 1.
RECURSIVE ScanTrace(_, _, _, _)
ScanTrace(l, lo, hi, c) ==
  IF lo > hi THEN <<>>
  ELSE IF lo = hi THEN <<c>>
  ELSE LET mid == (lo + hi) \div 2
           left == ScanTrace(l, lo, mid, c)
       IN  left \o ScanTrace(l, mid + 1, hi, Scan(l, mid, mid, left[Len(left)]))

RegsTrace(l) == ScanTrace(l, 1, Len(l) + 1, InitScan)

\* C1 (as claimed): a line whose first non-whitespace character is '|' or '>'
\* is rejected with missing-command, whether or not whitespace precedes that
\* character.
C1_LeadingSymbolIsMissingCmd ==
  (Validated /\ FirstNonSpace(line) \in Special) => e = "PARSE_ERR_MISSING_CMD"

\* C2 (as claimed): for an accepted line every process string holds at least
\* one argument, so cmd is not the null pointer when run_processes compares it
\* with the builtin names.
C2_EveryStageHasCommand ==
  (pc = "launch" /\ cur <= Len(head)) => head[cur].cmd # NULL

\* C3 (as claimed): a '|' read in the one-redirection-symbol state or in the
\* filename-after-whitespace state makes parse_errors return missing-output-file.
C3_PipeAfterRedirectIsNoOutput ==
  Validated =>
    LET t == RegsTrace(line)
    IN  \A i \in 1..Len(line) :
          (/\ line[i] = "|"
           /\ t[i].ret = "CONTINUE"
           /\ t[i].state \in {"SEEN_ONE_ARR", "READING_FILENAME_WHITESPACE"})
          => e = "PARSE_ERR_NO_OUTPUT"

\* The index of the last character of l that is not whitespace (0 if none).
LastNonSpace(l) ==
  IF \E i \in 1..Len(l) : l[i] # " "
  THEN CHOOSE i \in 1..Len(l) : l[i] # " " /\ \A j \in (i + 1)..Len(l) : l[j] = " "
  ELSE 0

\* l ends with a redirection symbol, optionally followed by whitespace only.
EndsWithRedirect(l) == LastNonSpace(l) > 0 /\ l[LastNonSpace(l)] = ">"

\* Where the run of '>' that ends l (up to trailing whitespace) begins.
TrailingRedirectStart(l) ==
  CHOOSE r \in 1..LastNonSpace(l) :
    /\ \A j \in r..LastNonSpace(l) : l[j] = ">"
    /\ r > 1 => l[r - 1] # ">"

\* C4 (as claimed): a line that ends with '>' or '>>', optionally followed by
\* whitespace, is rejected with missing-output-file whatever precedes the
\* redirection symbol.
C4_TrailingRedirectIsNoOutput ==
  (Validated /\ EndsWithRedirect(line)) => e = "PARSE_ERR_NO_OUTPUT"

\* C4 (amended): for a line that ends with '>' or '>>' and optional
\* whitespace, the result is decided by the state in which the automaton
\* reads the first of these trailing symbols: missing-output-file when it is
\* reading a process (arguments or the whitespace between them),
\* missing-command in the start state, mislocated-redirection after an
\* earlier redirection symbol's whitespace or filename; an error returned
\* before that symbol is the result.
C4_TrailingRedirectByState ==
  (Validated /\ EndsWithRedirect(line)) =>
    LET c == RegsBefore(line, TrailingRedirectStart(line))
    IN  /\ c.ret # "CONTINUE" => e = c.ret
        /\ (c.ret = "CONTINUE" /\ c.state \in {"READING_PROCESS_ARGS",
                                                "READING_PROCESS_WHITESPACE"})
             => e = "PARSE_ERR_NO_OUTPUT"
        /\ (c.ret = "CONTINUE" /\ c.state = "SEEN_PIPE") => e = "PARSE_ERR_MISSING_CMD"
        /\ (c.ret = "CONTINUE" /\ c.state \in {"READING_FILENAME",
                                                "READING_FILENAME_WHITESPACE"})
             => e = "PARSE_ERR_MISLOCATED_REDIR"
        /\ c.ret = "CONTINUE" => c.state \notin {"SEEN_ONE_ARR", "SEEN_TWO_ARR"}

\* Witness of C4: a rejected line that ends with ">>" and whitespace after an
\* argument, reported as missing-output-file.
C4_Witness ==
  /\ Rejected /\ EndsWithRedirect(line)
  /\ LastNonSpace(line) < Len(line)
  /\ TrailingRedirectStart(line) < LastNonSpace(line)
  /\ RegsBefore(line, TrailingRedirectStart(line)).state = "READING_PROCESS_ARGS"
  /\ e = "PARSE_ERR_NO_OUTPUT"

\* C5: once a filename character has been read, any later '|' or '>' makes
\* parse_errors return mislocated-redirection, also across whitespace.
C5_SymbolAfterFilenameIsMislocated ==
  Validated =>
    LET t == RegsTrace(line)
    IN  \A i \in 1..Len(line) :
          (/\ line[i] \in Special
           /\ \E j \in 1..i : t[j].ret = "CONTINUE" /\ t[j].state = "READING_FILENAME")
          => e = "PARSE_ERR_MISLOCATED_REDIR"

\* Witness of C5: whitespace lies between the filename and the later symbol.
C5_Witness ==
  /\ Rejected /\ e = "PARSE_ERR_MISLOCATED_REDIR"
  /\ \E i \in 3..Len(line) :
       /\ line[i] \in Special /\ line[i - 1] = " "
       /\ RegsBefore(line, i).ret = "CONTINUE"
       /\ RegsBefore(line, i).state = "READING_FILENAME"

\* The argument vectors the compiler builds from l, one per process string.
StageArgs(l) ==
  LET t == tokenize_processes(l)
      r == initialize_processes(t.buf, t.toks)
  IN  [k \in 1..Len(r.list) |-> r.list[k].args]

\* Some process string of l has more than 16 arguments.
SomeStageOverflows(l) ==
  LET a == StageArgs(l) IN \E k \in 1..Len(a) : Len(a[k]) > 16

\* C6 (as claimed): a line in which some stage has more than 16 arguments is
\* rejected with argument-overflow, wherever the stage is.
C6_OverflowAlwaysReported ==
  (Validated /\ SomeStageOverflows(line)) => e = "PARSE_ERR_ARG_OVERFLOW"

\* C6 (amended): a line in which some stage has more than 16 arguments is
\* never accepted, wherever the stage is; the result is argument-overflow
\* whenever the scan ends without a missing-command, missing-output-file or
\* mislocated-redirection condition, and that other error otherwise.
C6_OverflowUnlessOtherError ==
  (Validated /\ SomeStageOverflows(line)) =>
    LET c == Scan(line, 1, Len(line), InitScan)
    IN  /\ e # "NO_ERROR"
        /\ (c.ret = "CONTINUE"
            /\ c.state \in {"READING_PROCESS_ARGS", "READING_PROCESS_WHITESPACE",
                            "READING_FILENAME"})
           => e = "PARSE_ERR_ARG_OVERFLOW"
        /\ e # "PARSE_ERR_ARG_OVERFLOW"
           => e \in {"PARSE_ERR_MISSING_CMD", "PARSE_ERR_NO_OUTPUT",
                     "PARSE_ERR_MISLOCATED_REDIR"}

\* Witness of C6: the overflowing stage is the first of two, the last stage is
\* short, and the line is rejected with argument-overflow.
C6_Witness ==
  /\ Rejected /\ e = "PARSE_ERR_ARG_OVERFLOW"
  /\ LET a == StageArgs(line)
     IN  Len(a) = 2 /\ Len(a[1]) > 16 /\ Len(a[2]) = 1

\* C7: in an accepted line no '>' is followed later by a '|', and after
\* compilation every process but the last has redirect_output = NO_REDIRECT.
C7_RedirectOnlyInLastStage ==
  /\ Accepted =>
       ~ \E i, j \in 1..Len(line) : i < j /\ line[i] = ">" /\ line[j] = "|"
  /\ \A k \in 1..(Len(head) - 1) : head[k].redirect_output = "NO_REDIRECT"

\* Witness of C7: a compiled pipeline whose last process carries a redirection
\* mode and a filename.
C7_Witness ==
  /\ pc = "pipes" /\ Len(head) >= 2
  /\ head[Len(head)].redirect_output = "REDIRECT_TRUNCATE"
  /\ head[Len(head)].filename = <<"a">>
  /\ head[1].redirect_output = "NO_REDIRECT"

\* C8: a line parse_errors rejects is reported and main returns to the top of
\* its loop: the input is not tokenized, no Process is built, no pipe is
\* created, no process is forked, and the descriptors, the children and the
\* working directory of the controlling process stay as they were.
C8_RejectedLineHasNoEffect ==
  [][(pc = "validate" /\ parse_errors(input) # "NO_ERROR" /\ pc' # pc) =>
       /\ pc' = "prompt"
       /\ e' = parse_errors(input)
       /\ stderr' = Append(stderr, ErrorLine(e'))
       /\ UNCHANGED <<input, input_cpy, process_tokens, head, fds, npipes, children, cwd>>]_vars

\* Witness of C8: back at the top of the loop after a rejected line, with the
\* standard descriptors only, no child and no Process, in either directory.
C8_Witness ==
  /\ Rejected /\ line # <<>>
  /\ stderr = <<ErrorLine(e)>>
  /\ fds = StdTable /\ children = <<>> /\ head = <<>> /\ input = line
  /\ cwd = "/a"

\* The descriptors of t that refer to pipe ends.
PipeFdsOf(t) == {fd \in DOMAIN t : t[fd].kind = "pipe"}

\* C9: for a pipeline of N processes exactly N-1 pipes are created; process
\* i's out is the write end and process i+1's in the read end of the same
\* pipe; the first in stays standard input, the last out standard output.
C9_PipeWiring ==
  pc = "launch" =>
    LET N == Len(head)
    IN  /\ N >= 1
        /\ npipes = N - 1
        /\ Cardinality(PipeFdsOf(fds)) = 2 * (N - 1)
        /\ head[1].in = STDIN_FILENO
        /\ head[N].out = STDOUT_FILENO
        /\ \A i \in 1..(N - 1) :
             /\ head[i].out \in PipeFdsOf(fds)
             /\ head[i + 1].in \in PipeFdsOf(fds)
             /\ fds[head[i].out] = PipeEnd(i, "w")
             /\ fds[head[i + 1].in] = PipeEnd(i, "r")

\* Witness of C9: three processes, two pipes, before anything is forked.
C9_Witness ==
  /\ pc = "launch" /\ cur = 1
  /\ Len(head) = 3 /\ npipes = 2
  /\ fds[head[2].in] = PipeEnd(1, "r")
  /\ fds[head[2].out] = PipeEnd(2, "w")

\* The summary lines on stderr.
Summaries == {i \in DOMAIN stderr : stderr[i].kind = "completed"}

\* C10 (as claimed): once an accepted line has been run, stderr holds exactly
\* one summary line for it, with the text of the line as it was read and one
\* exit code per process in list order, also with cd and exit in the pipeline.
C10_OneSummaryPerAcceptedLine ==
  pc \in {"free", "exited", "crashed"} =>
    /\ Cardinality(Summaries) = 1
    /\ \A i \in Summaries :
         /\ stderr[i].text = line
         /\ stderr[i].codes = [k \in 1..Len(head) |-> head[k].exit_val]

\* C11 (as claimed): whenever a summary line is on stderr, every forked
\* process of the pipeline has been waited for (none is left in children),
\* also when the pipeline holds an exit or a cd at any position.
C11_SummaryAfterAllWaits ==
  Summaries # {} => DOMAIN children = {}

\* The error lines a forked process can write.
LaunchErrors ==
  {ErrorLine("LAUNCH_ERR_ACCESS_FILE"), ErrorLine("LAUNCH_ERR_CMD_NOT_FOUND"),
   ErrorLine("LAUNCH_ERR_ACCESS_DIR")}

\* C12: a step in which the child of stage k reports a launch error (the
\* output file cannot be opened, execvp fails) ends that child with status 1
\* before the command runs, and changes nothing else: the other children, the
\* Process list, the position and the descriptors of the controlling process
\* stay as they are; and each wait of the controlling process stores the
\* status of the waited child in that stage's exit_val, so the failure shows
\* in that stage's code only.
C12_LaunchErrorIsLocal ==
  [][/\ \A k \in DOMAIN children :
          (/\ k \in DOMAIN children'
           /\ children[k].pc \in {"setup", "exec"}
           /\ children'[k] # children[k]
           /\ stderr' # stderr)
          => /\ children'[k] = Exited(1)
             /\ \E m \in LaunchErrors : stderr' = Append(stderr, m)
             /\ children[k].pc = "setup"
                  => /\ head[k].redirect_output # "NO_REDIRECT"
                     /\ stderr' = Append(stderr, ErrorLine("LAUNCH_ERR_ACCESS_FILE"))
             /\ DOMAIN children' = DOMAIN children
             /\ \A j \in DOMAIN children \ {k} : children'[j] = children[j]
             /\ UNCHANGED <<pc, input_cpy, head, cur, fds, npipes, cwd>>
     /\ (pc = "wait" /\ pc' = "wait" /\ cur' = cur + 1 /\ children' # children)
          => /\ head[cur].pid \in DOMAIN children
             /\ children[head[cur].pid].pc = "exited"
             /\ head' = [head EXCEPT ![cur].exit_val = children[head[cur].pid].status]
     /\ \A k \in DOMAIN children :
          (/\ k \in DOMAIN children'
           /\ children[k].pc # "running"
           /\ children'[k].pc = "running")
          => children[k].pc = "exec" /\ stderr' = stderr]_vars

\* Witness of C12: a pipeline of two forked stages has been run; the first
\* reported command-not-found and shows code 1, the second shows code 0, and
\* the summary is out.
C12_Witness ==
  /\ pc = "free" /\ Len(head) = 2
  /\ \E i \in DOMAIN stderr : stderr[i] = ErrorLine("LAUNCH_ERR_CMD_NOT_FOUND")
  /\ \E i \in Summaries : stderr[i].codes = <<1, 0>>
  /\ children = <<>>

\* The cd of the stage at cur has no target, or chdir refuses the target.
CdFails ==
  \/ Len(head[cur].args) < 2
  \/ chdir(cwd, head[cur].args[2]) = "FAIL"

\* C13: the step of the launch loop over a cd stage forks nothing and leaves
\* the descriptors alone; when the target is missing or chdir fails it sets
\* the stage's exit_val to 1 and reports the directory-access error, and in
\* either case the loop goes on with the next stage.  No child ever belongs to
\* a cd stage, and the wait loop passes over a cd stage without touching its
\* exit_val, so the summary shows the 1.
C13_CdFailureIsLocal ==
  [][/\ (/\ pc = "launch" /\ cur <= Len(head) /\ head[cur].cmd = CD
         /\ (cur' # cur \/ pc' # pc))
        => /\ pc' = "launch" /\ cur' = cur + 1
           /\ UNCHANGED <<children, fds, npipes, input_cpy>>
           /\ IF CdFails
              THEN /\ head' = [head EXCEPT ![cur].exit_val = 1]
                   /\ stderr' = Append(stderr, ErrorLine("LAUNCH_ERR_ACCESS_DIR"))
                   /\ cwd' = cwd
              ELSE /\ UNCHANGED <<head, stderr>>
                   /\ cwd' = chdir(cwd, head[cur].args[2])
     /\ \A k \in DOMAIN children' : k <= Len(head') /\ head'[k].cmd # CD
     /\ (/\ pc = "wait" /\ cur <= Len(head) /\ head[cur].cmd = CD
         /\ (cur' # cur \/ pc' # pc))
        => /\ pc' = "wait" /\ cur' = cur + 1
           /\ UNCHANGED <<children, head, stderr>>]_vars

\* Witness of C13: the line "cd|a" has been run from the start directory: cd
\* had no target, the error and the summary with codes 1 and 0 are on stderr,
\* no child is left and main is back at the top of its loop.
C13_Witness ==
  /\ pc = "prompt" /\ children = <<>> /\ cwd = StartDir /\ fds = StdTable
  /\ line = <<"c", "d", "|", "a">>
  /\ stderr = <<ErrorLine("LAUNCH_ERR_ACCESS_DIR"),
                [kind |-> "completed", text |-> line, codes |-> <<1, 0>>]>>

\* The line has been run to its end: the summary is out, every forked process
\* has terminated, and main is back at the top of its loop, or the shell has
\* ended through exit.
RunComplete ==
  /\ pc \in {"prompt", "exited"}
  /\ Summaries # {}
  /\ \A k \in DOMAIN children : children[k].pc = "exited"

\* C14 (as claimed): with programs that terminate once their input is at
\* end-of-file or their output pipe has lost its reader, every accepted line
\* leads to a state in which every forked process has terminated, the summary
\* is out and the shell is ready for the next line (or has ended through
\* exit): nothing waits forever.  The pipeline is the one run_processes is
\* called with.
C14_NoDeadlock == (pc = "launch") ~> RunComplete

\* close_pipes on table t closes every pipe descriptor of t, each one in one
\* call of close and no descriptor that is not open.
ClosesEachOnce(t) ==
  LET s == CloseSeq(head, 1)
  IN  /\ \A i, j \in 1..Len(s) : s[i] = s[j] => i = j
      /\ {s[i] : i \in 1..Len(s)} = PipeFdsOf(t) \ {STDIN_FILENO, STDOUT_FILENO}

PipeEnds == {PipeEnd(i, end) : i \in 1..npipes, end \in {"r", "w"}}

\* Table t holds every pipe end of the current line, under the descriptor
\* numbers the Process list records.
HoldsAllPipes(t) ==
  /\ \A end \in PipeEnds : Holds(t, end)
  /\ \A i \in 1..(Len(head) - 1) :
       /\ head[i].out \in DOMAIN t /\ t[head[i].out] = PipeEnd(i, "w")
       /\ head[i + 1].in \in DOMAIN t /\ t[head[i + 1].in] = PipeEnd(i, "r")

\* C16: all N-1 pipes exist before the first stage is started and nothing is
\* forked before that; during the whole launch loop the controlling process
\* holds every pipe descriptor of the pipeline, and the table a child starts
\* with holds every one of them.
C16_PipesOpenUntilAllForked ==
  /\ pc \in {"compile", "pipes"} => children = <<>>
  /\ (pc = "launch" /\ cur = 1) => children = <<>>
  /\ pc = "launch" => npipes = Len(head) - 1 /\ HoldsAllPipes(fds)
  /\ \A k \in DOMAIN children :
       children[k].pc = "setup" => HoldsAllPipes(children[k].fdt)

\* Witness of C16: the third of three stages is about to be started; the
\* second has just been forked and holds both ends of both pipes, as the
\* controlling process still does.
C16_Witness ==
  /\ pc = "launch" /\ cur = 3 /\ Len(head) = 3 /\ npipes = 2
  /\ 2 \in DOMAIN children /\ children[2].pc = "setup"
  /\ Cardinality(PipeFdsOf(children[2].fdt)) = 4
  /\ Cardinality(PipeFdsOf(fds)) = 4

\* The stages (list positions) whose process holds the pipe end: a forked
\* stage is its child; an in-process stage is the controlling process, which
\* counts once, as position 0.
HoldersOf(end) ==
  {k \in DOMAIN children : Holds(children[k].fdt, end)}
  \cup (IF pc \notin {"exited", "crashed"} /\ Holds(fds, end) THEN {0} ELSE {})

\* All stages have been started and every process has closed what it does not
\* need: the controlling process is past its close_pipes, and every forked
\* stage is past setup_fd_table and has not terminated.
AfterCleanup ==
  /\ pc = "wait" /\ cur = 1
  /\ \A k \in 1..Len(head) :
       head[k].cmd # CD => k \in DOMAIN children /\ children[k].pc \in {"exec", "running"}

\* C17 (as claimed): after descriptor cleanup the write end of pipe i is open
\* in the process of stage i only, as its standard output, and the read end in
\* the process of stage i+1 only, as its standard input, also when a cd stage
\* is next to the pipe.
C17_EachEndInOneProcess ==
  AfterCleanup =>
    \A i \in 1..npipes :
      /\ HoldersOf(PipeEnd(i, "w")) = {i}
      /\ children[i].fdt[STDOUT_FILENO] = PipeEnd(i, "w")
      /\ HoldersOf(PipeEnd(i, "r")) = {i + 1}
      /\ children[i + 1].fdt[STDIN_FILENO] = PipeEnd(i, "r")

\* The scan of l meets a missing-command, missing-output-file or
\* mislocated-redirection condition: a return inside the loop, or the end of
\* input in the start state, after a redirection symbol, or in the whitespace
\* after one.
OtherCondition(l) ==
  LET c == Scan(l, 1, Len(l), InitScan)
  IN  \/ c.ret # "CONTINUE"
      \/ c.state \in {"SEEN_PIPE", "SEEN_ONE_ARR", "SEEN_TWO_ARR",
                      "READING_FILENAME_WHITESPACE"}

\* C18: argument-overflow is returned only after the whole line was scanned;
\* on a line without another condition it is returned exactly when some stage,
\* final or not, has more than 16 arguments; on a line with a missing-command,
\* missing-output-file or mislocated-redirection condition that condition is
\* the result, whatever the argument counts.
C18_OverflowIsLateAndGlobal ==
  Validated =>
    /\ e = "PARSE_ERR_ARG_OVERFLOW"
         => Scan(line, 1, Len(line), InitScan).ret = "CONTINUE"
    /\ ~OtherCondition(line)
         => (e = "PARSE_ERR_ARG_OVERFLOW" <=> SomeStageOverflows(line))
    /\ OtherCondition(line)
         => e \in {"PARSE_ERR_MISSING_CMD", "PARSE_ERR_NO_OUTPUT",
                   "PARSE_ERR_MISLOCATED_REDIR"}

\* Witness of C18: a line with a stage of more than 16 arguments that ends in
\* a pipe symbol is rejected with missing-command.
C18_Witness ==
  /\ Rejected /\ SomeStageOverflows(line)
  /\ line[Len(line)] = "|"
  /\ e = "PARSE_ERR_MISSING_CMD"

\* C19 (as claimed): for every line parse_errors accepts, the process strings
\* tokenize_processes stores and the terminating null pointer fit in the
\* ARGS_MAX slots of process_tokens: an accepted line has at most 15 stages.
C19_StagesFitProcessTokens ==
  Accepted => Len(tokenize_processes(line).toks) + 1 <= ARGS_MAX

\* The k-th smallest element of a finite set of numbers.
Nth(S, k) == CHOOSE x \in S : Cardinality({y \in S : y < x}) = k - 1

\* The positions of the pipe symbols of l.
PipesAt(l) == {i \in 1..Len(l) : l[i] = "|"}

\* The text of stage k of l lies between two pipe symbols (or an end of l);
\* its argument text ends before the first '>' in it.
StageStart(l, k) == IF k = 1 THEN 1 ELSE Nth(PipesAt(l), k - 1) + 1
StageEnd(l, k) ==
  IF k = Cardinality(PipesAt(l)) + 1 THEN Len(l) ELSE Nth(PipesAt(l), k) - 1
ArgEnd(l, k) ==
  LET r == {i \in StageStart(l, k)..StageEnd(l, k) : l[i] = ">"}
  IN  IF r = {} THEN StageEnd(l, k) ELSE Nth(r, 1) - 1

\* The words of the argument text of stage k: the maximal runs of characters
\* other than whitespace.
WordStarts(l, k) ==
  {i \in StageStart(l, k)..ArgEnd(l, k) :
     l[i] # " " /\ (i = StageStart(l, k) \/ l[i - 1] = " ")}
WordFrom(l, k, i) ==
  SubSeq(l, i, CHOOSE j \in i..ArgEnd(l, k) :
                 /\ \A m \in i..j : l[m] # " "
                 /\ j = ArgEnd(l, k) \/ l[j + 1] = " ")
ExpectedArgs(l, k) ==
  [n \in 1..Cardinality(WordStarts(l, k)) |-> WordFrom(l, k, Nth(WordStarts(l, k), n))]

\* The values of num_args the automaton folds into max_args, in order: at
\* each '|' or '>' read in a process state, and at the end of input when it is
\* reached in a process state.  t is RegsTrace(l).
ProcessStates == {"READING_PROCESS_ARGS", "READING_PROCESS_WHITESPACE"}
FoldPoints(l, t) ==
  {i \in 1..Len(l) : l[i] \in Special /\ t[i].state \in ProcessStates}
  \cup (IF t[Len(l) + 1].state \in ProcessStates THEN {Len(l) + 1} ELSE {})
ValidatorCounts(l) ==
  LET t == RegsTrace(l)
      f == FoldPoints(l, t)
  IN  [k \in 1..Cardinality(f) |-> t[Nth(f, k)].num_args]

\* C20: for a compiled line the automaton counted one value per stage, and
\* for every stage the argument vector tokenize_cmd filled holds exactly the
\* words before the first '>' of the stage, as many as the automaton counted,
\* at most 16, so that with the closing null entry it fits args[ARGS_MAX + 1].
C20_ValidatorAndCompilerAgree ==
  pc = "pipes" =>
    LET v == ValidatorCounts(line)
    IN  /\ Len(head) = Cardinality(PipesAt(line)) + 1
        /\ Len(v) = Len(head)
        /\ \A k \in 1..Len(head) :
             /\ head[k].args = ExpectedArgs(line, k)
             /\ Len(head[k].args) = v[k]
             /\ v[k] <= 16
             /\ Len(head[k].args) + 1 <= ARGS_MAX + 1
             /\ \A n \in 1..Len(head[k].args) :
                  \A m \in 1..Len(head[k].args[n]) : head[k].args[n][m] # ">"

\* Witness of C20: a compiled stage with 16 arguments followed by a
\* redirection with a filename.
C20_Witness ==
  /\ pc = "pipes"
  /\ \E k \in 1..Len(head) :
       /\ Len(head[k].args) = 16
       /\ head[k].redirect_output = "REDIRECT_TRUNCATE"
       /\ head[k].filename = <<"a">>

====
